---- MODULE Spec2Model ----
(***************************************************************************)
(* Major-group duplicate detection and removal, as done by                 *)
(* scripts/remove_duplicate_groups.py: main() loads a CSV file, segments   *)
(* it into major groups at the rows whose dumb_time is null, computes a    *)
(* signature per group over the non-time columns, keeps the first group of *)
(* every signature, and saves the remaining rows.                          *)
(*                                                                         *)
(* Row and group indices are 0-based as in the code; row i of a frame is   *)
(* rows[i + 1].  A text value is a tuple of one-character strings.         *)
(***************************************************************************)
EXTENDS Integers, Sequences, FiniteSets, TLC

\* Bounds of the model.
MaxRows == 4       \* most rows of an input file of Spec
MaxRuns == 2       \* main() is run on its own output up to this many times
MaxK == 3          \* most repeats of the pattern group (SpecRepeat)
MaxM == 3          \* most rows of the pattern group (SpecRepeat)
MaxColRows == 3    \* most rows of an input file of SpecColumns
MaxCellRows == 3   \* most rows of an input file of SpecCells
MaxCallRows == 3   \* most rows of the frame of SpecCall
MaxCallGroups == 2 \* most groups of the group list of SpecCall
MaxAnalysisRows == 4 \* most rows of an input file of SpecAnalysis
MaxGenRows == 4     \* most rows asked of the generator (n_rows)
MaxGroupSize == 2   \* most rows of a planned group, for random.randint(200, 500)

VARIABLES
    pc,               \* position in main()
    run,              \* 1 for the first run of main(), 2 for a run on its output
    orig_file,        \* the input file of the first run
    input_file,       \* args.input_file of this run
    df,               \* main: df
    major_groups,     \* main: major_groups
    group_signatures, \* find_duplicate_groups: group_signatures, in insertion order
    unique_groups,    \* main: unique_groups
    duplicate_groups, \* main: duplicate_groups
    groups_to_keep,   \* main: groups_to_keep
    dup_counts,       \* analyze_duplicates: dup_counts
    df_cleaned,       \* main: df_cleaned
    output_file,      \* the file written to args.output
    saved,            \* whether this run wrote args.output
    n_rows,           \* generate_test_data: n_rows
    group_plans,      \* generate_test_data: group_plans
    current_rows,     \* generate_test_data: current_rows
    all_groups,       \* generate_test_data: all_groups
    group_idx,        \* generate_test_data: the groups of group_plans generated
    scan_i,           \* analyze_duplicate_blocks: i
    blocks            \* analyze_duplicate_blocks: blocks

vars == <<pc, run, orig_file, input_file, df, major_groups, group_signatures,
          unique_groups, duplicate_groups, groups_to_keep, dup_counts,
          df_cleaned, output_file, saved,
          n_rows, group_plans, current_rows, all_groups, group_idx,
          scan_i, blocks>>

\* The variables of the generator and of the block scan.
gen_vars == <<n_rows, group_plans, current_rows, all_groups, group_idx>>
scan_vars == <<scan_i, blocks>>

\* Their values in a run of another script.
NoGenerator ==
    /\ n_rows = 0
    /\ group_plans = <<>>
    /\ current_rows = 0
    /\ all_groups = <<>>
    /\ group_idx = 0

NoScan ==
    /\ scan_i = 0
    /\ blocks = <<>>

----------------------------------------------------------------------------
\* Cells, text and columns.

\* A cell of a DataFrame: NaN (a missing value) or a text value.
NaN == [isna |-> TRUE, text |-> <<>>]
Text(s) == [isna |-> FALSE, text |-> s]

\* The header of the generated files, reduced to the boundary column and two
\* text columns.
Columns == <<"dumb_time", "category_3", "tags">>

\* The characters of a column name.
ColumnChars(col) ==
    CASE col = "dumb_time"  -> <<"d","u","m","b","_","t","i","m","e">>
      [] col = "good_time"  -> <<"g","o","o","d","_","t","i","m","e">>
      [] col = "tags"       -> <<"t","a","g","s">>
      [] col = "category_3" -> <<"c","a","t","e","g","o","r","y","_","3">>
      [] col = "isGood"     -> <<"i","s","G","o","o","d">>
      [] col = "linear_over_time" ->
            <<"l","i","n","e","a","r","_","o","v","e","r","_","t","i","m","e">>
      [] OTHER              -> <<>>

\* str.lower() on the characters column names use.
lower(s) ==
    [i \in 1..Len(s) |->
        CASE s[i] = "G" -> "g" [] s[i] = "T" -> "t" [] s[i] = "I" -> "i"
          [] s[i] = "M" -> "m" [] s[i] = "E" -> "e" [] OTHER -> s[i]]

\* sub in s
contains(sub, s) ==
    \E i \in 0..(Len(s) - Len(sub)) : SubSeq(s, i + 1, i + Len(sub)) = sub

\* The fields pandas.read_csv reads as a missing value (those over the
\* model's characters).
NaValues == {<<>>, <<"n","a","n">>}

\* pd.read_csv: a file becomes a frame, an empty or NaN-spelled field a NaN.
read_csv(file) ==
    [columns |-> file.header,
     rows |-> [i \in 1..Len(file.records) |->
                 [col \in DOMAIN file.records[i] |->
                     IF file.records[i][col] \in NaValues
                     THEN NaN ELSE Text(file.records[i][col])]]]

\* df.to_csv(index=False): a NaN is written as an empty field.
to_csv(frame) ==
    [header |-> frame.columns,
     records |-> [i \in 1..Len(frame.rows) |->
                    [col \in DOMAIN frame.rows[i] |->
                        IF frame.rows[i][col].isna THEN <<>>
                        ELSE frame.rows[i][col].text]]]

NoFrame == [columns |-> <<>>, rows |-> <<>>]
NoFile == [header |-> <<>>, records |-> <<>>]

----------------------------------------------------------------------------
\* identify_major_groups

\* df[df['dumb_time'].isna()].index.tolist()
major_group_starts(frame) ==
    SelectSeq([i \in 1..Len(frame.rows) |-> i - 1],
              LAMBDA i : frame.rows[i + 1]["dumb_time"].isna)

identify_major_groups(frame) ==
    LET starts == major_group_starts(frame) IN
    [i \in 1..Len(starts) |->
        LET start_idx == starts[i]
            end_idx == IF i - 1 < Len(starts) - 1
                       THEN starts[i + 1] - 1
                       ELSE Len(frame.rows) - 1
        IN [start |-> start_idx, end |-> end_idx,
            size |-> end_idx - start_idx + 1, group_index |-> i - 1]]

----------------------------------------------------------------------------
\* create_group_signature

\* str(row[col]): a NaN prints as nan, a text value as itself.
str(v) == IF v.isna THEN <<"n","a","n">> ELSE v.text

\* sep.join(parts)
RECURSIVE join(_, _)
join(sep, parts) ==
    IF parts = <<>> THEN <<>>
    ELSE IF Len(parts) = 1 THEN parts[1]
    ELSE parts[1] \o sep \o join(sep, Tail(parts))

\* list(df.columns): no column is left out of the signature.
non_time_cols_all(frame) == frame.columns

\* [col for col in df.columns if 'time' not in col.lower()]
non_time_cols(frame) ==
    SelectSeq(frame.columns,
              LAMBDA col : ~contains(<<"t","i","m","e">>, lower(ColumnChars(col))))

\* The buffer values_str built over rows start_idx..end_idx.
RECURSIVE values_str(_, _, _, _)
values_str(frame, start_idx, end_idx, cols) ==
    IF start_idx > end_idx \/ start_idx > Len(frame.rows) - 1 THEN <<>>
    ELSE LET row == frame.rows[start_idx + 1]
             row_values == [k \in 1..Len(cols) |-> str(row[cols[k]])]
         IN join(<<"|">>, row_values) \o <<"\n">>
              \o values_str(frame, start_idx + 1, end_idx, cols)

\* hashlib.md5(...).hexdigest(): the digest of a buffer, taken to be free of
\* collisions over the buffers of the model.
md5(buffer) == <<"md5", buffer>>

\* The signature taken over df.loc[start_idx:end_idx+1], whose end is
\* inclusive: one row too many.
create_group_signature_loc(frame, start_idx, end_idx, cols) ==
    md5(values_str(frame, start_idx, end_idx + 1, cols))

\* A signature under which a null equals nothing: the buffer of a group with
\* a NaN in a compared cell is tagged with the group's start.
create_group_signature_nulls_differ(frame, start_idx, end_idx, cols) ==
    IF \E i \in start_idx..end_idx : \E k \in 1..Len(cols) :
           frame.rows[i + 1][cols[k]].isna
    THEN md5(values_str(frame, start_idx, end_idx, cols)
               \o <<"#">> \o [n \in 1..start_idx |-> "#"])
    ELSE md5(values_str(frame, start_idx, end_idx, cols))

create_group_signature(frame, start_idx, end_idx, cols) ==
    md5(values_str(frame, start_idx, end_idx, cols))

----------------------------------------------------------------------------
\* find_duplicate_groups

\* group_signatures[signature].append(group) on a defaultdict(list): the
\* buckets, in the order their signatures were first seen, after the first k
\* groups.
RECURSIVE bucket_groups(_, _, _, _)
bucket_groups(frame, groups, cols, k) ==
    IF k = 0 THEN <<>>
    ELSE LET prev == bucket_groups(frame, groups, cols, k - 1)
             group == groups[k]
             signature == create_group_signature(frame, group.start, group.end, cols)
             hit == {j \in 1..Len(prev) : prev[j].signature = signature}
         IN IF hit = {}
            THEN Append(prev, [signature |-> signature, groups |-> <<group>>])
            ELSE [j \in 1..Len(prev) |->
                    IF j \in hit
                    THEN [prev[j] EXCEPT !.groups = Append(@, group)]
                    ELSE prev[j]]

\* groups[-1]: the last occurrence kept instead of the first.
kept_occurrence_last(groups) == groups[Len(groups)]

\* groups[0] of a bucket: the occurrence that is kept.
kept_occurrence(groups) == groups[1]

\* groups[2:]: the second occurrence is not marked.
rest_occurrences_from_2(groups) == SubSeq(groups, 3, Len(groups))

\* groups[1:] of a bucket: the occurrences marked as duplicates.
rest_occurrences(groups) == Tail(groups)

\* duplicate_groups.append(groups[1]) once per bucket of two groups or more:
\* one entry per duplicate set.
RECURSIVE collect_duplicates_one_per_set(_)
collect_duplicates_one_per_set(buckets) ==
    IF buckets = <<>> THEN <<>>
    ELSE (IF Len(buckets[1].groups) > 1 THEN <<buckets[1].groups[2]>> ELSE <<>>)
           \o collect_duplicates_one_per_set(Tail(buckets))

\* for group in groups[1:]: duplicate_groups.append(group), over the buckets.
RECURSIVE collect_duplicates(_)
collect_duplicates(buckets) ==
    IF buckets = <<>> THEN <<>>
    ELSE rest_occurrences(buckets[1].groups) \o collect_duplicates(Tail(buckets))

find_duplicate_groups(frame, groups) ==
    LET cols == non_time_cols(frame)
        buckets == bucket_groups(frame, groups, cols, Len(groups))
    IN [group_signatures |-> buckets,
        unique_groups |-> [j \in 1..Len(buckets) |-> kept_occurrence(buckets[j].groups)],
        duplicate_groups |-> collect_duplicates(buckets),
        groups_to_keep |->
            {kept_occurrence(buckets[j].groups).group_index : j \in 1..Len(buckets)}]

----------------------------------------------------------------------------
\* remove_duplicate_groups

\* keep_mask.iloc[group['start']:group['end']] = True: the last row of every
\* kept group is left unmarked.
keep_mask_exclusive(frame, keep, groups) ==
    {i \in 0..(Len(frame.rows) - 1) :
        \E g \in 1..Len(groups) :
            /\ groups[g].group_index \in keep
            /\ groups[g].start <= i
            /\ i < groups[g].end}

\* keep_mask.iloc[group['start']:group['end']+1] = True for the kept groups:
\* the 0-based row indices the mask marks.
keep_mask(frame, keep, groups) ==
    {i \in 0..(Len(frame.rows) - 1) :
        \E g \in 1..Len(groups) :
            /\ groups[g].group_index \in keep
            /\ groups[g].start <= i
            /\ i < groups[g].end + 1}

\* df[keep_mask].reset_index(drop=True).  The mask of a frame without rows,
\* pd.Series([]), is not a boolean Series, and indexing by it selects no
\* column.
remove_duplicate_groups(frame, keep, groups) ==
    IF Len(frame.rows) = 0 THEN NoFrame
    ELSE LET mask == keep_mask(frame, keep, groups)
             kept == SelectSeq([i \in 1..Len(frame.rows) |-> i - 1],
                               LAMBDA i : i \in mask)
         IN [columns |-> frame.columns,
             rows |-> [j \in 1..Len(kept) |-> frame.rows[kept[j] + 1]]]

----------------------------------------------------------------------------
\* analyze_duplicates

\* total_groups = len(unique_groups) + len(duplicate_groups), printed as
\* "Total major groups".
total_groups(unique, duplicate) == Len(unique) + Len(duplicate)

\* all_groups = unique_groups: the histogram is made of the first
\* occurrences only.
analyze_duplicates_unique_only(frame, unique, duplicate) ==
    LET unique_and_duplicate == unique
        sig_groups == bucket_groups(frame, unique_and_duplicate, non_time_cols(frame),
                                    Len(unique_and_duplicate))
        sizes == {Len(sig_groups[j].groups) : j \in 1..Len(sig_groups)}
    IN [count \in sizes |->
           Cardinality({j \in 1..Len(sig_groups) : Len(sig_groups[j].groups) = count})]

\* dup_counts[len(groups)] += 1 over the buckets of unique_groups +
\* duplicate_groups (all_groups of the function, here unique_and_duplicate):
\* how many signatures are shared by exactly k groups.
analyze_duplicates(frame, unique, duplicate) ==
    LET unique_and_duplicate == unique \o duplicate
        sig_groups == bucket_groups(frame, unique_and_duplicate, non_time_cols(frame),
                                    Len(unique_and_duplicate))
        sizes == {Len(sig_groups[j].groups) : j \in 1..Len(sig_groups)}
    IN [count \in sizes |->
           Cardinality({j \in 1..Len(sig_groups) : Len(sig_groups[j].groups) = count})]

NoCounts == [count \in {} |-> 0]

----------------------------------------------------------------------------
\* main

\* df = pd.read_csv(args.input_file)
Load ==
    /\ pc = "start"
    /\ df' = read_csv(input_file)
    /\ pc' = "loaded"
    /\ UNCHANGED <<run, orig_file, input_file, major_groups, group_signatures,
                   unique_groups, duplicate_groups, groups_to_keep, dup_counts,
                   df_cleaned, output_file, saved>>
    /\ UNCHANGED <<gen_vars, scan_vars>>

\* A segmentation that takes a frame without the dumb_time column for a frame
\* without groups and goes on.
IdentifyMajorGroups_unchecked ==
    /\ pc = "loaded"
    /\ major_groups' =
          IF \E k \in 1..Len(df.columns) : df.columns[k] = "dumb_time"
          THEN identify_major_groups(df) ELSE <<>>
    /\ pc' = "identified"
    /\ UNCHANGED <<run, orig_file, input_file, df, group_signatures,
                   unique_groups, duplicate_groups, groups_to_keep, dup_counts,
                   df_cleaned, output_file, saved>>
    /\ UNCHANGED <<gen_vars, scan_vars>>

\* major_groups = identify_major_groups(df); df['dumb_time'] raises KeyError
\* when the frame has no such column.
IdentifyMajorGroups ==
    /\ pc = "loaded"
    /\ IF \E k \in 1..Len(df.columns) : df.columns[k] = "dumb_time"
       THEN /\ major_groups' = identify_major_groups(df)
            /\ pc' = "identified"
       ELSE /\ pc' = "KeyError"
            /\ UNCHANGED major_groups
    /\ UNCHANGED <<run, orig_file, input_file, df, group_signatures,
                   unique_groups, duplicate_groups, groups_to_keep, dup_counts,
                   df_cleaned, output_file, saved>>
    /\ UNCHANGED <<gen_vars, scan_vars>>

\* unique_groups, duplicate_groups, groups_to_keep = find_duplicate_groups(...)
FindDuplicateGroups ==
    /\ pc = "identified"
    /\ LET found == find_duplicate_groups(df, major_groups) IN
        /\ group_signatures' = found.group_signatures
        /\ unique_groups' = found.unique_groups
        /\ duplicate_groups' = found.duplicate_groups
        /\ groups_to_keep' = found.groups_to_keep
    /\ pc' = "found"
    /\ UNCHANGED <<run, orig_file, input_file, df, major_groups, dup_counts,
                   df_cleaned, output_file, saved>>
    /\ UNCHANGED <<gen_vars, scan_vars>>

\* analyze_duplicates(df, unique_groups, duplicate_groups): the duplication
\* rate divides by total_groups, so a frame without groups ends the run.
AnalyzeDuplicates ==
    /\ pc = "found"
    /\ IF Len(unique_groups) + Len(duplicate_groups) = 0
       THEN /\ pc' = "ZeroDivisionError"
            /\ UNCHANGED dup_counts
       ELSE /\ dup_counts' = analyze_duplicates(df, unique_groups, duplicate_groups)
            /\ pc' = "analyzed"
    /\ UNCHANGED <<run, orig_file, input_file, df, major_groups, group_signatures,
                   unique_groups, duplicate_groups, groups_to_keep,
                   df_cleaned, output_file, saved>>
    /\ UNCHANGED <<gen_vars, scan_vars>>

\* An analyze-only run without the return: it goes on to remove and to write.
AnalyzeOnly_no_return ==
    /\ pc = "analyzed"
    /\ df_cleaned' = remove_duplicate_groups(df, groups_to_keep, major_groups)
    /\ output_file' = to_csv(df_cleaned')
    /\ saved' = TRUE
    /\ pc' = "done"
    /\ UNCHANGED <<run, orig_file, input_file, df, major_groups, group_signatures,
                   unique_groups, duplicate_groups, groups_to_keep, dup_counts>>
    /\ UNCHANGED <<gen_vars, scan_vars>>

\* if args.analyze_only: return
AnalyzeOnly ==
    /\ pc = "analyzed"
    /\ pc' = "done"
    /\ UNCHANGED <<run, orig_file, input_file, df, major_groups, group_signatures,
                   unique_groups, duplicate_groups, groups_to_keep, dup_counts,
                   df_cleaned, output_file, saved>>
    /\ UNCHANGED <<gen_vars, scan_vars>>

\* A removal that drops the rows from df itself (inplace) and returns it.
RemoveDuplicateGroups_inplace ==
    /\ pc = "analyzed"
    /\ df' = remove_duplicate_groups(df, groups_to_keep, major_groups)
    /\ df_cleaned' = df'
    /\ pc' = "removed"
    /\ UNCHANGED <<run, orig_file, input_file, major_groups, group_signatures,
                   unique_groups, duplicate_groups, groups_to_keep, dup_counts,
                   output_file, saved>>
    /\ UNCHANGED <<gen_vars, scan_vars>>

\* df_cleaned = remove_duplicate_groups(df, groups_to_keep, major_groups)
RemoveDuplicateGroups ==
    /\ pc = "analyzed"
    /\ df_cleaned' = remove_duplicate_groups(df, groups_to_keep, major_groups)
    /\ pc' = "removed"
    /\ UNCHANGED <<run, orig_file, input_file, df, major_groups, group_signatures,
                   unique_groups, duplicate_groups, groups_to_keep, dup_counts,
                   output_file, saved>>
    /\ UNCHANGED <<gen_vars, scan_vars>>

\* df_cleaned.to_csv(args.output, index=False) and the summary, whose
\* percentage divides by len(df).
Save ==
    /\ pc = "removed"
    /\ output_file' = to_csv(df_cleaned)
    /\ saved' = TRUE
    /\ pc' = IF Len(df.rows) = 0 THEN "ZeroDivisionError" ELSE "done"
    /\ UNCHANGED <<run, orig_file, input_file, df, major_groups, group_signatures,
                   unique_groups, duplicate_groups, groups_to_keep, dup_counts,
                   df_cleaned>>
    /\ UNCHANGED <<gen_vars, scan_vars>>

\* The script is run again on the file it wrote.
Rerun ==
    /\ pc = "done"
    /\ saved
    /\ run < MaxRuns
    /\ run' = run + 1
    /\ input_file' = output_file
    /\ pc' = "start"
    /\ df' = NoFrame
    /\ major_groups' = <<>>
    /\ group_signatures' = <<>>
    /\ unique_groups' = <<>>
    /\ duplicate_groups' = <<>>
    /\ groups_to_keep' = {}
    /\ dup_counts' = NoCounts
    /\ df_cleaned' = NoFrame
    /\ output_file' = NoFile
    /\ saved' = FALSE
    /\ UNCHANGED orig_file
    /\ UNCHANGED <<gen_vars, scan_vars>>

Next ==
    \/ Load
    \/ IdentifyMajorGroups
    \/ FindDuplicateGroups
    \/ AnalyzeDuplicates
    \/ AnalyzeOnly
    \/ RemoveDuplicateGroups
    \/ Save
    \/ Rerun

----------------------------------------------------------------------------
\* Input files.

\* The fields of a generated file.  The dumb_time of a row is empty or the
\* time of that row, and the times of a file differ from row to row; the two
\* data fields are texts that may contain the separator of the buffer.
Letters == <<"a","b","c","d","e","f","g","h","i","j","k","l","m">>

TimeAt(i) == <<Letters[((i - 1) \div Len(Letters)) + 1],
               Letters[((i - 1) % Len(Letters)) + 1]>>

DataFields == {<<<<"x">>, <<"x">>>>,
               <<<<"x","|","x">>, <<"x">>>>,
               <<<<"x">>, <<"x","|","x">>>>}

Records(i) == {[dumb_time |-> t, category_3 |-> d[1], tags |-> d[2]] :
                  t \in {<<>>, TimeAt(i)}, d \in DataFields}

Files(n) == {[header |-> Columns, records |-> recs] :
                recs \in {f \in [1..n -> UNION {Records(i) : i \in 1..n}] :
                             \A i \in 1..n : f[i] \in Records(i)}}

StartOn(file) ==
    /\ pc = "start"
    /\ run = 1
    /\ orig_file = file
    /\ input_file = file
    /\ df = NoFrame
    /\ major_groups = <<>>
    /\ group_signatures = <<>>
    /\ unique_groups = <<>>
    /\ duplicate_groups = <<>>
    /\ groups_to_keep = {}
    /\ dup_counts = NoCounts
    /\ df_cleaned = NoFrame
    /\ output_file = NoFile
    /\ saved = FALSE
    /\ NoGenerator
    /\ NoScan

Init == \E n \in 0..MaxRows : \E file \in Files(n) : StartOn(file)

Spec == Init /\ [][Next]_vars

----------------------------------------------------------------------------
\* Files made of k repeats of one pattern group of m rows: dumb_time is empty
\* on the first row of every group and the time of the row on the others, the
\* data fields follow the pattern.
RepeatFile(k, m, pattern) ==
    [header |-> Columns,
     records |-> [i \in 1..(k * m) |->
                    LET r == ((i - 1) % m) + 1
                    IN [dumb_time |-> IF r = 1 THEN <<>> ELSE TimeAt(i),
                        category_3 |-> pattern[r][1],
                        tags |-> pattern[r][2]]]]

InitRepeat ==
    \E k \in 2..MaxK : \E m \in 1..MaxM :
        \E pattern \in [1..m -> DataFields] :
            StartOn(RepeatFile(k, m, pattern))

SpecRepeat == InitRepeat /\ [][Next]_vars

----------------------------------------------------------------------------
\* Properties.

NRows == Len(df.rows)

\* Positions of main() at which major_groups, the outcome of detection and
\* df_cleaned are set; they are first set at "identified", "found" and
\* "removed" and not changed by the steps after.
Segmented == pc \notin {"start", "loaded", "KeyError"}
Found == Segmented /\ pc # "identified"
Removed == pc = "removed" \/ (pc \in {"done", "ZeroDivisionError"} /\ saved)

GroupCount == Len(major_groups)
CompareCols == non_time_cols(df)

\* The buffer and the signature of the g-th group (g = 1..GroupCount).
BufferOf(g) == values_str(df, major_groups[g].start, major_groups[g].end, CompareCols)
SigOf(g) == create_group_signature(df, major_groups[g].start, major_groups[g].end,
                                   CompareCols)

\* No earlier group has the signature of group g.
FirstOccurrence(g) == \A h \in 1..(g - 1) : SigOf(h) # SigOf(g)

RECURSIVE SumSizes(_)
SumSizes(groups) ==
    IF groups = <<>> THEN 0 ELSE groups[1].size + SumSizes(Tail(groups))

\* The sum of the sizes of the groups that repeat an earlier group.
TotalDuplicateRows ==
    SumSizes(SelectSeq(major_groups,
                       LAMBDA group : ~FirstOccurrence(group.group_index + 1)))

\* The 0-based indices of the rows of such groups.
DuplicateRowIndices ==
    {i \in 0..(NRows - 1) :
        \E g \in 1..GroupCount :
            /\ ~FirstOccurrence(g)
            /\ major_groups[g].start <= i
            /\ i <= major_groups[g].end}

\* The rows of df at the indices of `indices`, in order.
RowsAt(indices) ==
    LET kept == SelectSeq([i \in 1..NRows |-> i - 1], LAMBDA i : i \in indices)
    IN [j \in 1..Len(kept) |-> df.rows[kept[j] + 1]]

\* Groups g1 and g2 have the same size and, row by row, the same cells in
\* the compared columns.
SameComparedContent(g1, g2) ==
    /\ major_groups[g1].size = major_groups[g2].size
    /\ \A r \in 0..(major_groups[g1].size - 1) :
          \A k \in 1..Len(CompareCols) :
              df.rows[major_groups[g1].start + r + 1][CompareCols[k]]
                = df.rows[major_groups[g2].start + r + 1][CompareCols[k]]

\* Groups g1 and g2 lie in one bucket of group_signatures.
SameBucket(g1, g2) ==
    \E j \in 1..Len(group_signatures) :
        \E a, b \in 1..Len(group_signatures[j].groups) :
            /\ group_signatures[j].groups[a].group_index = g1 - 1
            /\ group_signatures[j].groups[b].group_index = g2 - 1

\* C1: after segmentation every row index 0..n-1 lies in exactly one group,
\* every group is a span [start, end] of size end - start + 1 >= 1, the
\* starts increase strictly and the sizes sum to the row count.
C1_GroupsPartitionRows ==
    Segmented =>
        /\ \A i \in 0..(NRows - 1) :
              Cardinality({g \in 1..GroupCount :
                              major_groups[g].start <= i /\ i <= major_groups[g].end}) = 1
        /\ \A g \in 1..GroupCount :
              /\ major_groups[g].size = major_groups[g].end - major_groups[g].start + 1
              /\ major_groups[g].size >= 1
        /\ \A g, h \in 1..GroupCount :
              g < h => major_groups[g].start < major_groups[h].start
        /\ SumSizes(major_groups) = NRows

\* C2: for a table with rows the first group starts at row 0, whether the
\* dumb_time of row 0 is null or not.
C2_FirstGroupStartsAtZero ==
    (Segmented /\ NRows > 0) =>
        /\ GroupCount >= 1
        /\ major_groups[1].start = 0

\* C3: removal keeps exactly the groups that are the first occurrence of
\* their signature: a group is kept iff no earlier group has its signature,
\* and the output holds the rows of exactly those groups.
C3_KeepsFirstOccurrences ==
    pc = "removed" =>
        /\ \A g \in 1..GroupCount :
              (major_groups[g].group_index \in groups_to_keep) <=> FirstOccurrence(g)
        /\ df_cleaned.rows =
              RowsAt({i \in 0..(NRows - 1) :
                         \E g \in 1..GroupCount :
                             /\ FirstOccurrence(g)
                             /\ major_groups[g].start <= i
                             /\ i <= major_groups[g].end})

\* A later occurrence was removed and two groups were kept.
C3_Witness ==
    /\ pc = "removed"
    /\ \E g \in 1..GroupCount : ~FirstOccurrence(g)
    /\ Cardinality(groups_to_keep) >= 2
    /\ Len(df_cleaned.rows) < NRows

\* C4: the output has as many rows as the input minus the rows of the groups
\* that repeat an earlier group.
C4_OutputRowCount ==
    pc = "removed" => Len(df_cleaned.rows) = NRows - TotalDuplicateRows

\* C5: the output is the input without the rows of the groups that repeat an
\* earlier group: every other row is there once, unchanged and in order, under
\* the same columns.
C5_OnlyDuplicateRowsDeleted ==
    pc = "removed" =>
        /\ df_cleaned.columns = df.columns
        /\ df_cleaned.rows = RowsAt((0..(NRows - 1)) \ DuplicateRowIndices)

\* C6: two groups of the same size with the same cells, row by row, in every
\* compared column have the same signature and lie in one duplicate set,
\* whatever their dumb_time values.
C6_EqualContentEqualSignature ==
    pc = "found" =>
        \A g1, g2 \in 1..GroupCount :
            SameComparedContent(g1, g2) => (SigOf(g1) = SigOf(g2) /\ SameBucket(g1, g2))

\* Two groups of two rows agree on the compared columns and differ in
\* dumb_time.
C6_Witness ==
    /\ pc = "found"
    /\ \E g1, g2 \in 1..GroupCount :
          /\ g1 # g2
          /\ major_groups[g1].size >= 2
          /\ SameComparedContent(g1, g2)
          /\ SameBucket(g1, g2)
          /\ df.rows[major_groups[g1].start + 2]["dumb_time"]
               # df.rows[major_groups[g2].start + 2]["dumb_time"]

\* C7: two groups of the same size that differ in a cell of a compared
\* column have different buffers and are not duplicates of each other.
C7_DifferentContentDifferentBuffer ==
    pc = "found" =>
        \A g1, g2 \in 1..GroupCount :
            (major_groups[g1].size = major_groups[g2].size /\ ~SameComparedContent(g1, g2))
                => (BufferOf(g1) # BufferOf(g2) /\ ~SameBucket(g1, g2))

IsRepeatTable(k, m) ==
    /\ NRows = k * m
    /\ \A i \in 0..(NRows - 1) :
          /\ df.rows[i + 1]["dumb_time"].isna <=> (i % m = 0)
          /\ \A c \in 1..Len(df.columns) :
                df.columns[c] # "dumb_time" =>
                    df.rows[i + 1][df.columns[c]] = df.rows[(i % m) + 1][df.columns[c]]

\* C9: on k >= 2 groups of m rows with the same content detection finds one
\* duplicate set holding all k groups, (k - 1) * m duplicate rows, and removal
\* leaves the m rows of the first group.
C9_RepeatedGroups ==
    \A k \in 2..NRows : \A m \in 1..NRows :
        IsRepeatTable(k, m) =>
            /\ Segmented => GroupCount = k
            /\ Found =>
                  /\ Len(group_signatures) = 1
                  /\ [j \in 1..k |-> group_signatures[1].groups[j].group_index]
                        = [j \in 1..k |-> j - 1]
                  /\ Len(group_signatures[1].groups) = k
                  /\ Len(duplicate_groups) = k - 1
                  /\ SumSizes(duplicate_groups) = (k - 1) * m
            /\ Removed =>
                  /\ df_cleaned.rows = SubSeq(df.rows, 1, m)
                  /\ NRows - Len(df_cleaned.rows) = (k - 1) * m

\* Three repeats of a group of three rows were reduced to three rows.
C9_Witness ==
    /\ pc = "removed"
    /\ run = 1
    /\ IsRepeatTable(3, 3)
    /\ Len(df_cleaned.rows) = 3
    /\ SumSizes(duplicate_groups) = 6

\* C10: when no row after row 0 has a null dumb_time there is one group
\* spanning the table, no duplicate is found and removal returns the table
\* unchanged.
C10_SingleGroupUnchanged ==
    (NRows >= 1 /\ \A i \in 1..(NRows - 1) : ~df.rows[i + 1]["dumb_time"].isna) =>
        /\ Segmented =>
              major_groups = <<[start |-> 0, end |-> NRows - 1,
                                size |-> NRows, group_index |-> 0]>>
        /\ Found => duplicate_groups = <<>>
        /\ pc # "ZeroDivisionError"
        /\ Removed => df_cleaned = df

----------------------------------------------------------------------------
\* Groups g1 and g2 have the same size and, row by row, the same cells in
\* every column other than dumb_time.
SameButBoundary(g1, g2) ==
    /\ major_groups[g1].size = major_groups[g2].size
    /\ \A r \in 0..(major_groups[g1].size - 1) :
          \A c \in 1..Len(df.columns) :
              df.columns[c] # "dumb_time" =>
                  df.rows[major_groups[g1].start + r + 1][df.columns[c]]
                    = df.rows[major_groups[g2].start + r + 1][df.columns[c]]

\* Some row after the first has different dumb_time values in g1 and g2.
BoundaryDiffers(g1, g2) ==
    \E r \in 1..(major_groups[g1].size - 1) :
        df.rows[major_groups[g1].start + r + 1]["dumb_time"]
          # df.rows[major_groups[g2].start + r + 1]["dumb_time"]

\* C11: dumb_time is not among the compared columns, and two groups that
\* agree on every other column and differ in dumb_time after their first row
\* are reported as one duplicate set.
C11_BoundaryColumnNotCompared ==
    pc = "found" =>
        /\ \A k \in 1..Len(CompareCols) : CompareCols[k] # "dumb_time"
        /\ \A g1, g2 \in 1..GroupCount :
              (SameButBoundary(g1, g2) /\ BoundaryDiffers(g1, g2))
                  => (SigOf(g1) = SigOf(g2) /\ SameBucket(g1, g2))

\* Two groups differ only in dumb_time and fill the one bucket there is.
C11_Witness ==
    /\ pc = "found"
    /\ GroupCount = 2
    /\ SameButBoundary(1, 2)
    /\ BoundaryDiffers(1, 2)
    /\ Len(group_signatures) = 1
    /\ Len(duplicate_groups) = 1

----------------------------------------------------------------------------
\* Files under other headers of the generator's columns: one with the data
\* column linear_over_time, one with time columns only, one without
\* dumb_time.
Headers == {<<"dumb_time", "linear_over_time", "tags">>,
            <<"dumb_time", "good_time">>,
            <<"good_time", "tags">>}

\* The fields of column col on row i.
FieldsAt(col, i) ==
    CASE col = "dumb_time"        -> {<<>>, TimeAt(i)}
      [] col = "good_time"        -> {TimeAt(i)}
      [] col = "linear_over_time" -> {<<"1">>, <<"2">>}
      [] OTHER                    -> {<<"x">>, <<"y">>}

RecordsAt(header, i) ==
    LET cols == {header[k] : k \in 1..Len(header)}
        fields == UNION {FieldsAt(col, i) : col \in cols}
    IN {r \in [cols -> fields] : \A col \in cols : r[col] \in FieldsAt(col, i)}

RECURSIVE RecordSeqs(_, _)
RecordSeqs(header, n) ==
    IF n = 0 THEN {<<>>}
    ELSE {Append(recs, r) : recs \in RecordSeqs(header, n - 1),
                            r \in RecordsAt(header, n)}

InitColumns ==
    \E header \in Headers : \E n \in 0..MaxColRows :
        \E recs \in RecordSeqs(header, n) :
            StartOn([header |-> header, records |-> recs])

SpecColumns == InitColumns /\ [][Next]_vars

\* The columns a detection configured as in test_major_group_duplicates
\* ignores: the boundary column and good_time.
IgnoreList == {"dumb_time", "good_time"}

\* C12: the compared columns are the header columns outside the ignore list,
\* in header order, and two groups of the same size that differ in a cell of
\* such a column are not reported as duplicates.
C12_AllOtherColumnsCompared ==
    pc = "found" =>
        /\ CompareCols = SelectSeq(df.columns, LAMBDA col : col \notin IgnoreList)
        /\ \A g1, g2 \in 1..GroupCount :
              (/\ major_groups[g1].size = major_groups[g2].size
               /\ \E r \in 0..(major_groups[g1].size - 1) :
                     \E c \in 1..Len(df.columns) :
                         /\ df.columns[c] \notin IgnoreList
                         /\ df.rows[major_groups[g1].start + r + 1][df.columns[c]]
                              # df.rows[major_groups[g2].start + r + 1][df.columns[c]])
                  => ~SameBucket(g1, g2)

----------------------------------------------------------------------------
\* Files with one compared column whose fields are the two missing-value
\* spellings of the generator (an empty field, a dash), the text nan, a plain
\* text and a text with a line break.
TagFields == {<<>>, <<"-">>, <<"n","a","n">>, <<"x">>, <<"x","\n","x">>}

CellRecordsAt(i) ==
    {[dumb_time |-> t, tags |-> v] : t \in {<<>>, TimeAt(i)}, v \in TagFields}

RECURSIVE CellRecordSeqs(_)
CellRecordSeqs(n) ==
    IF n = 0 THEN {<<>>}
    ELSE {Append(recs, r) : recs \in CellRecordSeqs(n - 1), r \in CellRecordsAt(n)}

InitCells ==
    \E n \in 0..MaxCellRows : \E recs \in CellRecordSeqs(n) :
        StartOn([header |-> <<"dumb_time", "tags">>, records |-> recs])

SpecCells == InitCells /\ [][Next]_vars

\* C13: two groups with different numbers of rows have different buffers and
\* are never in one duplicate set, so the groups of a duplicate set have one
\* common size.
C13_DifferentSizesDifferentBuffers ==
    pc = "found" =>
        /\ \A g1, g2 \in 1..GroupCount :
              major_groups[g1].size # major_groups[g2].size
                  => (BufferOf(g1) # BufferOf(g2) /\ ~SameBucket(g1, g2))
        /\ \A j \in 1..Len(group_signatures) :
              \A a, b \in 1..Len(group_signatures[j].groups) :
                  group_signatures[j].groups[a].size = group_signatures[j].groups[b].size

----------------------------------------------------------------------------
\* The cells of row i (0-based) in the compared columns.
ComparedRow(i) == [k \in 1..Len(CompareCols) |-> df.rows[i + 1][CompareCols[k]]]

\* df with rows i and j (0-based) exchanged.
SwapRows(i, j) ==
    [df EXCEPT !.rows = [n \in 1..NRows |->
                            IF n = i + 1 THEN df.rows[j + 1]
                            ELSE IF n = j + 1 THEN df.rows[i + 1]
                            ELSE df.rows[n]]]

\* The compared columns with the a-th and b-th exchanged.
SwapCols(a, b) ==
    [k \in 1..Len(CompareCols) |->
        IF k = a THEN CompareCols[b] ELSE IF k = b THEN CompareCols[a]
        ELSE CompareCols[k]]

\* Group g2 holds the rows of g1 in another order (on the compared columns).
Reordered(g1, g2) ==
    LET n == major_groups[g1].size
        s1 == major_groups[g1].start
        s2 == major_groups[g2].start
    IN /\ major_groups[g2].size = n
       /\ \E r \in 0..(n - 1) : ComparedRow(s1 + r) # ComparedRow(s2 + r)
       /\ \E p \in [0..(n - 1) -> 0..(n - 1)] :
             /\ \A a, b \in 0..(n - 1) : p[a] = p[b] => a = b
             /\ \A r \in 0..(n - 1) : ComparedRow(s2 + r) = ComparedRow(s1 + p[r])

\* C14: exchanging two rows of a group that differ on the compared columns
\* changes its buffer, exchanging two compared columns whose cells differ in
\* some row of the group changes its buffer, and a group holding the rows of
\* another in a different order is not reported as its duplicate.
C14_SignatureOrderSensitive ==
    pc = "found" =>
        /\ \A g \in 1..GroupCount :
              \A i, j \in major_groups[g].start..major_groups[g].end :
                  ComparedRow(i) # ComparedRow(j) =>
                      values_str(SwapRows(i, j), major_groups[g].start,
                                 major_groups[g].end, CompareCols) # BufferOf(g)
        /\ \A g \in 1..GroupCount :
              \A a, b \in 1..Len(CompareCols) :
                  (\E i \in major_groups[g].start..major_groups[g].end :
                      df.rows[i + 1][CompareCols[a]] # df.rows[i + 1][CompareCols[b]])
                    => values_str(df, major_groups[g].start, major_groups[g].end,
                                  SwapCols(a, b)) # BufferOf(g)
        /\ \A g1, g2 \in 1..GroupCount : Reordered(g1, g2) => ~SameBucket(g1, g2)

----------------------------------------------------------------------------
\* Group g has a NaN in a compared cell.
HasNull(g) ==
    \E i \in major_groups[g].start..major_groups[g].end :
        \E k \in 1..Len(CompareCols) : df.rows[i + 1][CompareCols[k]].isna

----------------------------------------------------------------------------
\* The field of the input file at row i (0-based) and column col.
FieldAt(i, col) == input_file.records[i + 1][col]

\* Groups g1 and g2 have the same size and the same fields in the compared
\* columns of the input file, but for the cell at offset j of column col.
SameFieldsBut(g1, g2, j, col) ==
    /\ major_groups[g1].size = major_groups[g2].size
    /\ \A o \in 0..(major_groups[g1].size - 1) :
          \A k \in 1..Len(CompareCols) :
              (o # j \/ CompareCols[k] # col)
                  => FieldAt(major_groups[g1].start + o, CompareCols[k])
                       = FieldAt(major_groups[g2].start + o, CompareCols[k])

\* C16: a group with an empty field in a compared cell never has the
\* signature of an otherwise identical group with a non-empty field in that
\* cell.
C16_NullTokenReserved ==
    pc = "found" =>
        \A g1, g2 \in 1..GroupCount :
            \A j \in 0..(major_groups[g1].size - 1) :
                \A k \in 1..Len(CompareCols) :
                    ( /\ SameFieldsBut(g1, g2, j, CompareCols[k])
                      /\ FieldAt(major_groups[g1].start + j, CompareCols[k]) = <<>>
                      /\ FieldAt(major_groups[g2].start + j, CompareCols[k]) # <<>> )
                        => SigOf(g1) # SigOf(g2)

----------------------------------------------------------------------------
\* The input file has a dumb_time column.
HasBoundaryColumn ==
    \E k \in 1..Len(input_file.header) : input_file.header[k] = "dumb_time"

\* C17: on a table without the dumb_time column the run ends in the KeyError
\* of the segmentation: it gets no further than that, and there is no
\* group list, no report, no cleaned table and no output file.
C17_MissingBoundaryColumnFails ==
    ~HasBoundaryColumn =>
        /\ pc \in {"start", "loaded", "KeyError"}
        /\ major_groups = <<>>
        /\ group_signatures = <<>>
        /\ unique_groups = <<>>
        /\ duplicate_groups = <<>>
        /\ dup_counts = NoCounts
        /\ df_cleaned = NoFrame
        /\ output_file = NoFile
        /\ ~saved

\* A table with rows and without the dumb_time column was segmented.
C17_Witness ==
    /\ ~HasBoundaryColumn
    /\ Len(df.rows) > 0
    /\ pc = "KeyError"

----------------------------------------------------------------------------
\* C18: when no column is left to compare, detection fails: the run gets no
\* result from it, reports no duplicates and removes no rows.
C18_EmptySubsetFails ==
    (pc # "start" /\ HasBoundaryColumn /\ Len(non_time_cols(df)) = 0) =>
        /\ pc \notin {"found", "analyzed", "removed", "done"}
        /\ duplicate_groups = <<>>
        /\ (Removed => Len(df_cleaned.rows) = Len(df.rows))

----------------------------------------------------------------------------
\* remove_duplicate_groups called on its own, with any group list.

\* A frame of n rows that differ in their tags.
CallFrame(n) ==
    read_csv([header |-> Columns,
              records |-> [i \in 1..n |->
                             [dumb_time |-> IF i = 1 THEN <<>> ELSE TimeAt(i),
                              category_3 |-> <<"x">>,
                              tags |-> TimeAt(i)]]])

\* The group lists of at most MaxCallGroups groups over the rows of a frame
\* of n rows, each a dict as identify_major_groups builds it; the list need
\* not be sorted and its groups may overlap.
CallGroups(n) ==
    LET spans == {sp \in (0..(n - 1)) \X (0..(n - 1)) : sp[1] <= sp[2]}
    IN UNION {{[g \in 1..len |->
                   [start |-> sps[g][1], end |-> sps[g][2],
                    size |-> sps[g][2] - sps[g][1] + 1, group_index |-> g - 1]]
               : sps \in [1..len -> spans]}
              : len \in 0..MaxCallGroups}

InitCall ==
    \E n \in 1..MaxCallRows : \E groups \in CallGroups(n) :
        \E keep \in SUBSET {g - 1 : g \in 1..Len(groups)} :
            /\ pc = "call"
            /\ run = 1
            /\ orig_file = to_csv(CallFrame(n))
            /\ input_file = to_csv(CallFrame(n))
            /\ df = CallFrame(n)
            /\ major_groups = groups
            /\ groups_to_keep = keep
            /\ group_signatures = <<>>
            /\ unique_groups = <<>>
            /\ duplicate_groups = <<>>
            /\ dup_counts = NoCounts
            /\ df_cleaned = NoFrame
            /\ output_file = NoFile
            /\ saved = FALSE
            /\ NoGenerator
            /\ NoScan

\* remove_duplicate_groups(df, groups_to_keep, major_groups) returns.
CallRemoveDuplicateGroups ==
    /\ pc = "call"
    /\ df_cleaned' = remove_duplicate_groups(df, groups_to_keep, major_groups)
    /\ pc' = "returned"
    /\ UNCHANGED <<run, orig_file, input_file, df, major_groups, group_signatures,
                   unique_groups, duplicate_groups, groups_to_keep, dup_counts,
                   output_file, saved>>
    /\ UNCHANGED <<gen_vars, scan_vars>>

NextCall == CallRemoveDuplicateGroups

SpecCall == InitCall /\ [][NextCall]_vars

\* Two groups of the list share a row.
Overlapping(groups) ==
    \E g, h \in 1..Len(groups) :
        /\ g # h
        /\ groups[g].start <= groups[h].end
        /\ groups[h].start <= groups[g].end

\* The list is not in ascending order of start.
Unsorted(groups) ==
    \E g, h \in 1..Len(groups) : g < h /\ groups[g].start > groups[h].start

\* C19: a call with an overlapping or unsorted group list does not return:
\* no table comes back from it.
C19_MalformedGroupsRejected ==
    (Overlapping(major_groups) \/ Unsorted(major_groups))
        => (pc # "returned" /\ df_cleaned = NoFrame)

----------------------------------------------------------------------------
\* C20: the steps of a run leave the table that was read as it was read
\* (same rows, same cells, same order); segmentation and detection done
\* again on it give the group list and the result the run holds; and the
\* table without the duplicates is another table, next to the input table.
C20_InputTableUnchanged ==
    /\ pc # "start" => df = read_csv(input_file)
    /\ Segmented => major_groups = identify_major_groups(df)
    /\ Found =>
          LET again == find_duplicate_groups(df, identify_major_groups(df)) IN
              /\ group_signatures = again.group_signatures
              /\ unique_groups = again.unique_groups
              /\ duplicate_groups = again.duplicate_groups
              /\ groups_to_keep = again.groups_to_keep
    /\ Removed =>
          df_cleaned = remove_duplicate_groups(df, groups_to_keep, major_groups)

\* Rows were removed, and the input table still has them.
C20_Witness ==
    /\ pc = "removed"
    /\ Len(df_cleaned.rows) < Len(df.rows)
    /\ Len(df_cleaned.rows) > 0
    /\ df = read_csv(input_file)

----------------------------------------------------------------------------
\* C21: the step that ends an analyze-only run leaves the table as loaded,
\* keeps the report, removes no row and writes no output file.
C21_AnalyzeOnlyWritesNothing ==
    [][(pc = "analyzed" /\ pc' = "done") =>
          /\ df' = df
          /\ df' = read_csv(input_file')
          /\ dup_counts' = analyze_duplicates(df, unique_groups, duplicate_groups)
          /\ df_cleaned' = NoFrame
          /\ output_file' = NoFile
          /\ ~saved']_vars

\* An analyze-only run that found duplicates has ended.
C21_Witness ==
    /\ pc = "done"
    /\ ~saved
    /\ Len(duplicate_groups) > 0
    /\ output_file = NoFile

----------------------------------------------------------------------------
\* analyze_correct_duplicates.py (analyze_data_pattern) and
\* validate_dataset_comprehensive.py (validate_dataset): the detection and
\* the duplication statistics of the two analysers, run on a loaded frame.

\* major_groups.append({'start', 'end', 'size', 'data'}): the groups of the
\* analysers carry no group_index; 'data' is the slice start..end of df.
analyser_major_groups(frame) ==
    LET starts == major_group_starts(frame) IN
    [i \in 1..Len(starts) |->
        LET start_idx == starts[i]
            end_idx == IF i - 1 < Len(starts) - 1
                       THEN starts[i + 1] - 1
                       ELSE Len(frame.rows) - 1
        IN [start |-> start_idx, end |-> end_idx,
            size |-> end_idx - start_idx + 1]]

\* hash(values_str): Python's hash of a str, taken to be free of collisions
\* over the buffers of the model.
hash(buffer) == <<"hash", buffer>>

\* signature = hash(values_str), the rows ended by "\n"
\* (analyze_data_pattern).
pattern_signature(frame, group, cols) ==
    hash(values_str(frame, group.start, group.end, cols))

\* sig_data of validate_dataset: one '|'.join(row_values) per row.
sig_data(frame, group, cols) ==
    [r \in 1..group.size |->
        join(<<"|">>, [k \in 1..Len(cols) |->
                          str(frame.rows[group.start + r][cols[k]])])]

\* ''.join(sig_data): the rows of a group run together.
validate_signature_no_separator(frame, group, cols) ==
    md5(join(<<>>, sig_data(frame, group, cols)))

\* signature = hashlib.md5('\n'.join(sig_data).encode()).hexdigest()
\* (validate_dataset).
validate_signature(frame, group, cols) ==
    md5(join(<<"\n">>, sig_data(frame, group, cols)))

\* group_signatures[signature].append(i): the buckets of group indices, in
\* the order their signatures were first seen, after the first k signatures.
RECURSIVE bucket_indices(_, _)
bucket_indices(signatures, k) ==
    IF k = 0 THEN <<>>
    ELSE LET prev == bucket_indices(signatures, k - 1)
             signature == signatures[k]
             hit == {j \in 1..Len(prev) : prev[j].signature = signature}
         IN IF hit = {}
            THEN Append(prev, [signature |-> signature, indices |-> <<k - 1>>])
            ELSE [j \in 1..Len(prev) |->
                    IF j \in hit
                    THEN [prev[j] EXCEPT !.indices = Append(@, k - 1)]
                    ELSE prev[j]]

\* {sig: indices for sig, indices in group_signatures.items() if len(indices) > 1}
duplicate_signatures(signatures) ==
    SelectSeq(signatures, LAMBDA b : Len(b.indices) > 1)

\* sum(1 for indices in duplicate_signatures.values() if len(indices) == 2)
duplicated_once(dups) ==
    Cardinality({j \in 1..Len(dups) : Len(dups[j].indices) = 2})

\* sum(1 for ... if len(indices) >= 3): every larger set counted as well.
triplicated_or_more(dups) ==
    Cardinality({j \in 1..Len(dups) : Len(dups[j].indices) >= 3})

\* sum(1 for indices in duplicate_signatures.values() if len(indices) == 3)
triplicated(dups) ==
    Cardinality({j \in 1..Len(dups) : Len(dups[j].indices) = 3})

\* Counter(len(indices) for indices in group_signatures.values())
duplication_counts(signatures) ==
    LET sizes == {Len(signatures[j].indices) : j \in 1..Len(signatures)}
    IN [count \in sizes |->
           Cardinality({j \in 1..Len(signatures) :
                           Len(signatures[j].indices) = count})]

\* duplication_counts.get(count, 0)
get(counts, count) == IF count \in DOMAIN counts THEN counts[count] ELSE 0

\* analyze_data_pattern from the major group analysis on: min() over no
\* group raises ValueError.
AnalyzeDataPattern ==
    /\ pc = "loaded"
    /\ LET groups == analyser_major_groups(df)
           cols == non_time_cols(df)
       IN IF groups = <<>>
          THEN /\ pc' = "ValueError"
               /\ UNCHANGED <<major_groups, group_signatures>>
          ELSE /\ major_groups' = groups
               /\ group_signatures' =
                     bucket_indices([g \in 1..Len(groups) |->
                                        pattern_signature(df, groups[g], cols)],
                                    Len(groups))
               /\ pc' = "pattern"
    /\ UNCHANGED <<run, orig_file, input_file, df, unique_groups,
                   duplicate_groups, groups_to_keep, dup_counts, df_cleaned,
                   output_file, saved>>
    /\ UNCHANGED <<gen_vars, scan_vars>>

\* validate_dataset from the major group validation on: min() over no group
\* raises ValueError.
ValidateDataset ==
    /\ pc = "loaded"
    /\ LET groups == analyser_major_groups(df)
           cols == non_time_cols(df)
       IN IF groups = <<>>
          THEN /\ pc' = "ValueError"
               /\ UNCHANGED <<major_groups, group_signatures, dup_counts>>
          ELSE /\ major_groups' = groups
               /\ group_signatures' =
                     bucket_indices([g \in 1..Len(groups) |->
                                        validate_signature(df, groups[g], cols)],
                                    Len(groups))
               /\ dup_counts' = duplication_counts(group_signatures')
               /\ pc' = "validated"
    /\ UNCHANGED <<run, orig_file, input_file, df, unique_groups,
                   duplicate_groups, groups_to_keep, df_cleaned,
                   output_file, saved>>
    /\ UNCHANGED <<gen_vars, scan_vars>>

\* One of the three scripts is run on the file: remove_duplicate_groups.py
\* (the steps of main) or one of the analysers.
NextAnalysis ==
    \/ Load
    \/ IdentifyMajorGroups
    \/ FindDuplicateGroups
    \/ AnalyzeDuplicates
    \/ AnalyzeOnly
    \/ RemoveDuplicateGroups
    \/ Save
    \/ Rerun
    \/ AnalyzeDataPattern
    \/ ValidateDataset

\* The files the analysers are run on: every row has its own good_time, the
\* dumb_time is empty or the time of the row, and category_3 is the one
\* compared column.
AnalysisColumns == <<"good_time", "dumb_time", "category_3">>

AnalysisFields == {<<"x">>, <<"y">>, <<"x","\n","x">>}

AnalysisFiles(n) ==
    {[header |-> AnalysisColumns,
      records |-> [i \in 1..n |->
                     [good_time |-> TimeAt(i),
                      dumb_time |-> IF blank[i] THEN <<>> ELSE TimeAt(i),
                      category_3 |-> cats[i]]]]
       : blank \in [1..n -> BOOLEAN], cats \in [1..n -> AnalysisFields]}

InitAnalysis ==
    \E n \in 0..MaxAnalysisRows : \E file \in AnalysisFiles(n) : StartOn(file)

SpecAnalysis == InitAnalysis /\ [][NextAnalysis]_vars

----------------------------------------------------------------------------
\* The sets of groups sharing one signature that have size k, and those that
\* have at least k groups, in the result of an analyser.
SetsOfSize(k) ==
    {j \in 1..Len(group_signatures) : Len(group_signatures[j].indices) = k}

SetsOfSizeAtLeast(k) ==
    {j \in 1..Len(group_signatures) : Len(group_signatures[j].indices) >= k}

\* C22 as stated: every set of size >= 3 is counted as triplicated, so the
\* sets counted as duplicated and as triplicated are all the duplicate sets.
C22_EverySetInOneClass ==
    LET dups == duplicate_signatures(group_signatures) IN
    /\ pc = "pattern" =>
          /\ duplicated_once(dups) = Cardinality(SetsOfSize(2))
          /\ triplicated(dups) = Cardinality(SetsOfSizeAtLeast(3))
          /\ duplicated_once(dups) + triplicated(dups)
                = Cardinality(SetsOfSizeAtLeast(2))
    /\ pc = "validated" =>
          /\ get(dup_counts, 2) = Cardinality(SetsOfSize(2))
          /\ get(dup_counts, 3) = Cardinality(SetsOfSizeAtLeast(3))
          /\ get(dup_counts, 2) + get(dup_counts, 3)
                = Cardinality(SetsOfSizeAtLeast(2))

\* C22 as amended: a set of size 2 is counted as duplicated and a set of
\* size exactly 3 as triplicated; a set of 4 or more groups is counted in
\* neither class, so the two counts fall short of the number of duplicate
\* sets by the number of such sets.
C22_ClassesBySize ==
    LET dups == duplicate_signatures(group_signatures) IN
    /\ pc = "pattern" =>
          /\ Len(dups) = Cardinality(SetsOfSizeAtLeast(2))
          /\ duplicated_once(dups) = Cardinality(SetsOfSize(2))
          /\ triplicated(dups) = Cardinality(SetsOfSize(3))
          /\ duplicated_once(dups) + triplicated(dups)
                + Cardinality(SetsOfSizeAtLeast(4)) = Len(dups)
    /\ pc = "validated" =>
          /\ get(dup_counts, 2) = Cardinality(SetsOfSize(2))
          /\ get(dup_counts, 3) = Cardinality(SetsOfSize(3))
          /\ get(dup_counts, 2) + get(dup_counts, 3)
                + Cardinality(SetsOfSizeAtLeast(4))
                = Cardinality(SetsOfSizeAtLeast(2))

\* analyze_data_pattern found a signature shared by four groups or more.
C22_Witness ==
    /\ pc = "pattern"
    /\ SetsOfSizeAtLeast(4) # {}

----------------------------------------------------------------------------
\* The signatures that two groups or more of the segmented table share: the
\* duplicate sets of the run of main.
SharedSignatures ==
    {SigOf(g) : g \in {g1 \in 1..GroupCount :
                          \E g2 \in 1..GroupCount :
                              g2 # g1 /\ SigOf(g2) = SigOf(g1)}}

\* The signatures of the groups of the table.
AllSignatures == {SigOf(g) : g \in 1..GroupCount}

\* The same for an analyser, from the signatures of analyze_data_pattern.
SharedPatternSignatures ==
    LET sig(g) == pattern_signature(df, major_groups[g], CompareCols) IN
    {sig(g) : g \in {g1 \in 1..GroupCount :
                        \E g2 \in 1..GroupCount : g2 # g1 /\ sig(g2) = sig(g1)}}

----------------------------------------------------------------------------
\* The sum of weight(k) * counts[k] over the sizes k = 1..n that occur.
RECURSIVE SumOver(_, _, _)
SumOver(counts, n, weighted) ==
    IF n = 0 THEN 0
    ELSE (IF weighted THEN n ELSE 1) * get(counts, n)
           + SumOver(counts, n - 1, weighted)

\* The signatures of validate_dataset over the groups of the table.
ValidateSigOf(g) == validate_signature(df, major_groups[g], CompareCols)

\* C24: dup_counts maps every k that occurs to the number of distinct
\* signatures that exactly k groups share; the sum of k * dup_counts[k] is
\* the number of groups, and the entries for k >= 2 sum to the number of
\* signatures shared by two groups or more.
C24_HistogramCountsSignatures ==
    /\ pc = "analyzed" =>
          /\ \A k \in DOMAIN dup_counts : k \in 1..GroupCount /\ dup_counts[k] > 0
          /\ \A k \in 1..GroupCount :
                get(dup_counts, k)
                  = Cardinality({s \in AllSignatures :
                       Cardinality({g \in 1..GroupCount : SigOf(g) = s}) = k})
          /\ SumOver(dup_counts, GroupCount, TRUE) = GroupCount
          /\ SumOver(dup_counts, GroupCount, TRUE) - SumOver(dup_counts, GroupCount, FALSE)
                = Len(duplicate_groups)
          /\ SumOver(dup_counts, GroupCount, FALSE) - get(dup_counts, 1)
                = Cardinality(SharedSignatures)
    /\ pc = "validated" =>
          /\ \A k \in DOMAIN dup_counts : k \in 1..GroupCount /\ dup_counts[k] > 0
          /\ \A k \in 1..GroupCount :
                get(dup_counts, k)
                  = Cardinality({s \in {ValidateSigOf(g) : g \in 1..GroupCount} :
                       Cardinality({g \in 1..GroupCount : ValidateSigOf(g) = s}) = k})
          /\ SumOver(dup_counts, GroupCount, TRUE) = GroupCount
          /\ SumOver(dup_counts, GroupCount, FALSE) - get(dup_counts, 1)
                = Cardinality({j \in 1..Len(group_signatures) :
                                  Len(group_signatures[j].indices) >= 2})

\* main made the histogram of a table with a unique group and a duplicate
\* set.
C24_Witness ==
    /\ pc = "analyzed"
    /\ {1, 2} \subseteq DOMAIN dup_counts

----------------------------------------------------------------------------
\* The rows after row 0 whose dumb_time is null.
LaterNullRows == {i \in 1..(NRows - 1) : df.rows[i + 1]["dumb_time"].isna}

\* C25: the group starts are row 0 and every later row with a null
\* dumb_time; every group ends at the row before the next start, the last at
\* row n - 1; a table without rows has no groups.
C25_StartsAtZeroAndNullRows ==
    pc = "identified" =>
        IF NRows = 0 THEN major_groups = <<>>
        ELSE /\ GroupCount = 1 + Cardinality(LaterNullRows)
             /\ {major_groups[g].start : g \in 1..GroupCount}
                   = {0} \cup LaterNullRows
             /\ \A g \in 1..GroupCount :
                   major_groups[g].end =
                      IF g < GroupCount THEN major_groups[g + 1].start - 1
                      ELSE NRows - 1
             /\ \A i \in LaterNullRows :
                   (i + 1) \in LaterNullRows =>
                       \E g \in 1..GroupCount :
                           /\ major_groups[g].start = i
                           /\ major_groups[g].end = i

----------------------------------------------------------------------------
\* The partition of the group indices 0..n-1 that a detection makes: the
\* sets of indices that share a signature.
PartitionOfGroups(buckets) ==
    {{buckets[j].groups[a].group_index : a \in 1..Len(buckets[j].groups)}
       : j \in 1..Len(buckets)}

PartitionOfIndices(buckets) ==
    {{buckets[j].indices[a] : a \in 1..Len(buckets[j].indices)}
       : j \in 1..Len(buckets)}

\* The partitions the three scripts make of the groups of a frame.
MainPartition(frame) ==
    PartitionOfGroups(
        find_duplicate_groups(frame, identify_major_groups(frame)).group_signatures)

PatternPartition(frame) ==
    LET groups == analyser_major_groups(frame) IN
    PartitionOfIndices(
        bucket_indices([g \in 1..Len(groups) |->
                           pattern_signature(frame, groups[g], non_time_cols(frame))],
                       Len(groups)))

ValidatePartition(frame) ==
    LET groups == analyser_major_groups(frame) IN
    PartitionOfIndices(
        bucket_indices([g \in 1..Len(groups) |->
                           validate_signature(frame, groups[g], non_time_cols(frame))],
                       Len(groups)))

----------------------------------------------------------------------------
\* test_major_group_duplicates.py: add_major_group_ids.

Digits == <<"0", "1", "2", "3", "4", "5", "6", "7", "8", "9">>

\* str(n) of an int n >= 0, as to_csv writes it.
RECURSIVE decimal(_)
decimal(n) ==
    IF n < Len(Digits) THEN <<Digits[n + 1]>>
    ELSE decimal(n \div Len(Digits)) \o <<Digits[(n % Len(Digits)) + 1]>>

\* major_group_ids = np.zeros(len(df)); major_group_ids[start_idx:end_idx] =
\* i + 1 for the i-th start, end_idx the next start or len(df): the id of
\* every row, 0 where no slice was assigned.
major_group_ids(frame) ==
    LET starts == major_group_starts(frame)
        end_idx(i) == IF i - 1 < Len(starts) - 1 THEN starts[i + 1]
                      ELSE Len(frame.rows)
    IN [r \in 1..Len(frame.rows) |->
           IF \E i \in 1..Len(starts) : starts[i] <= r - 1 /\ r - 1 < end_idx(i)
           THEN CHOOSE i \in 1..Len(starts) :
                    starts[i] <= r - 1 /\ r - 1 < end_idx(i)
           ELSE 0]

\* df['major_group_id'] = major_group_ids
with_major_group_id(frame) ==
    LET ids == major_group_ids(frame) IN
    [columns |-> Append(frame.columns, "major_group_id"),
     rows |-> [r \in 1..Len(frame.rows) |->
                 [col \in DOMAIN frame.rows[r] \cup {"major_group_id"} |->
                     IF col = "major_group_id" THEN Text(decimal(ids[r]))
                     ELSE frame.rows[r][col]]]]

\* 'total_groups': len(df['major_group_id'].value_counts())
label_total_groups(frame) ==
    Cardinality({frame.rows[r]["major_group_id"] : r \in 1..Len(frame.rows)})

\* add_major_group_ids(input_file, output_file) after the load:
\* df['dumb_time'] raises KeyError when the frame has no such column.
AddMajorGroupIds ==
    /\ pc = "loaded"
    /\ IF \E k \in 1..Len(df.columns) : df.columns[k] = "dumb_time"
       THEN /\ df' = with_major_group_id(df)
            /\ output_file' = to_csv(df')
            /\ saved' = TRUE
            /\ pc' = "labelled"
       ELSE /\ pc' = "KeyError"
            /\ UNCHANGED <<df, output_file, saved>>
    /\ UNCHANGED <<run, orig_file, input_file, major_groups, group_signatures,
                   unique_groups, duplicate_groups, groups_to_keep, dup_counts,
                   df_cleaned>>
    /\ UNCHANGED <<gen_vars, scan_vars>>

NextLabel ==
    \/ Load
    \/ AddMajorGroupIds

SpecLabel == Init /\ [][NextLabel]_vars

\* The major_group_id of row r (1-based) of the labelled frame.
IdOf(r) ==
    CHOOSE id \in 0..NRows : decimal(id) = df.rows[r]["major_group_id"].text

\* C29: the labelled rows agree with identify_major_groups on the table
\* that was read: two rows have the same id exactly when one group holds
\* both, every id is at least 1, the ids do not decrease, and total_groups
\* is the number of groups.
C29_IdsMatchGroups ==
    pc = "labelled" =>
        LET groups == identify_major_groups(read_csv(input_file))
            InGroup(g, r) == groups[g].start <= r - 1 /\ r - 1 <= groups[g].end
        IN /\ \A r1, r2 \in 1..NRows :
                 (IdOf(r1) = IdOf(r2))
                    <=> (\E g \in 1..Len(groups) : InGroup(g, r1) /\ InGroup(g, r2))
           /\ \A r \in 1..NRows : IdOf(r) >= 1
           /\ \A r1, r2 \in 1..NRows : r1 <= r2 => IdOf(r1) <= IdOf(r2)
           /\ label_total_groups(df) = Len(groups)

----------------------------------------------------------------------------
\* generate_test_data.py: generate_group and generate_test_data, with the
\* columns good_time, dumb_time and category_3 of the generated table.

GenColumns == <<"good_time", "dumb_time", "category_3">>

\* cat_values of category_3, cut to two letters.
GenCategories == {<<"a">>, <<"b">>}

\* generate_dumb_time(good_time_str, is_first_in_group): the empty string for
\* the first row of a group, else a time after the good_time, the k-th time
\* here.
generate_dumb_time(k, is_first_in_group) ==
    IF is_first_in_group THEN <<>> ELSE TimeAt(k + 1)

\* generate_group: the rows of a group of group_size rows whose times start
\* after `start` rows; values[r] is the random category of row r.  An empty
\* string is a text cell of the frame, not a NaN.
generate_group(group_size, start, values) ==
    [r \in 1..group_size |->
        [good_time |-> Text(TimeAt(start + r)),
         dumb_time |-> Text(generate_dumb_time(start + r, r = 1)),
         category_3 |-> Text(values[r])]]

\* dup_df = group_df.copy() with good_time and dumb_time made anew.
duplicate_of(group_df, start) ==
    [r \in 1..Len(group_df) |->
        [group_df[r] EXCEPT
            !.good_time = Text(TimeAt(start + r)),
            !.dumb_time = Text(generate_dumb_time(start + r, r = 1))]]

\* sum(len(g) for g in groups)
RECURSIVE rows_of(_)
rows_of(groups) ==
    IF groups = <<>> THEN 0 ELSE Len(groups[1]) + rows_of(Tail(groups))

\* pd.concat(all_groups, ignore_index=True)
RECURSIVE concat(_)
concat(groups) ==
    IF groups = <<>> THEN <<>> ELSE groups[1] \o concat(Tail(groups))

\* The plan without the check "if current_rows + total_rows <= n_rows": the
\* duplicates are planned whether their rows fit or not.
plan_group_no_room_check(size, copies, rows_so_far, wanted) ==
    LET group_size == IF rows_so_far + size > wanted
                      THEN wanted - rows_so_far ELSE size
    IN [size |-> group_size, duplicates |-> copies,
        rows |-> group_size * (copies + 1)]

\* The plan of one group (Step 1): the size is cut to the rows that are
\* left, and the duplicates are planned only if their rows fit.
plan_group(size, copies, rows_so_far, wanted) ==
    LET group_size == IF rows_so_far + size > wanted
                      THEN wanted - rows_so_far ELSE size
        total_rows == group_size * (copies + 1)
    IN IF rows_so_far + total_rows <= wanted
       THEN [size |-> group_size, duplicates |-> copies, rows |-> total_rows]
       ELSE [size |-> group_size, duplicates |-> 0, rows |-> group_size]

\* One turn of "while current_rows < n_rows": a random size and a random
\* number of duplicates (0 for rand < 0.80, 1 for rand < 0.95, else 2).
PlanGroup ==
    /\ pc = "plan"
    /\ current_rows < n_rows
    /\ \E size \in 1..MaxGroupSize : \E copies \in {0, 1, 2} :
          LET plan == plan_group(size, copies, current_rows, n_rows) IN
              /\ group_plans' = Append(group_plans, plan)
              /\ current_rows' = current_rows + plan.rows
    /\ UNCHANGED <<pc, run, orig_file, input_file, df, major_groups,
                   group_signatures, unique_groups, duplicate_groups,
                   groups_to_keep, dup_counts, df_cleaned, output_file, saved,
                   n_rows, all_groups, group_idx, scan_vars>>

\* Step 2, after the planning loop: the groups followed by an hour gap are
\* drawn; the gaps move the times only.
SelectGaps ==
    /\ pc = "plan"
    /\ ~(current_rows < n_rows)
    /\ pc' = "generate"
    /\ UNCHANGED <<run, orig_file, input_file, df, major_groups,
                   group_signatures, unique_groups, duplicate_groups,
                   groups_to_keep, dup_counts, df_cleaned, output_file, saved,
                   gen_vars, scan_vars>>

\* The groups one turn of the Step 3 loop of scripts/generate_test_data.py
\* appends for a plan: the base group and its copies.
RECURSIVE with_duplicates(_, _, _)
with_duplicates(group_df, copies, start) ==
    IF copies = 0 THEN <<>>
    ELSE <<duplicate_of(group_df, start)>>
           \o with_duplicates(group_df, copies - 1, start + Len(group_df))

\* One turn of "for group_idx, plan in enumerate(group_plans)"
\* (scripts/generate_test_data.py, generate_test_data_old_incorrect.py).
GenerateGroup ==
    /\ pc = "generate"
    /\ group_idx < Len(group_plans)
    /\ LET plan == group_plans[group_idx + 1]
           start == rows_of(all_groups)
       IN \E values \in [1..plan.size -> GenCategories] :
             LET group_df == generate_group(plan.size, start, values) IN
                 all_groups' = all_groups \o <<group_df>>
                    \o with_duplicates(group_df, plan.duplicates, start + plan.size)
    /\ group_idx' = group_idx + 1
    /\ UNCHANGED <<pc, run, orig_file, input_file, df, major_groups,
                   group_signatures, unique_groups, duplicate_groups,
                   groups_to_keep, dup_counts, df_cleaned, output_file, saved,
                   n_rows, group_plans, current_rows, scan_vars>>

\* The same turn in data_gen_scripts/generate_test_data.py: every duplicate
\* is dup_df = generate_group(plan['size'], ...), a group of new random
\* values.
RECURSIVE generated_again(_, _, _)
generated_again(group_size, all_values, start) ==
    IF all_values = <<>> THEN <<>>
    ELSE <<generate_group(group_size, start, all_values[1])>>
           \o generated_again(group_size, Tail(all_values), start + group_size)

GenerateGroupAgain ==
    /\ pc = "generate"
    /\ group_idx < Len(group_plans)
    /\ LET plan == group_plans[group_idx + 1]
           start == rows_of(all_groups)
       IN \E all_values \in [1..(plan.duplicates + 1) ->
                                [1..plan.size -> GenCategories]] :
             all_groups' = all_groups \o generated_again(plan.size, all_values, start)
    /\ group_idx' = group_idx + 1
    /\ UNCHANGED <<pc, run, orig_file, input_file, df, major_groups,
                   group_signatures, unique_groups, duplicate_groups,
                   groups_to_keep, dup_counts, df_cleaned, output_file, saved,
                   n_rows, group_plans, current_rows, scan_vars>>

\* final_df = pd.concat(all_groups, ignore_index=True), cut to n_rows rows;
\* pd.concat of no group raises ValueError.  main binds the result to df.
Concat ==
    /\ pc = "generate"
    /\ group_idx = Len(group_plans)
    /\ IF all_groups = <<>>
       THEN /\ pc' = "ValueError"
            /\ UNCHANGED df
       ELSE /\ df' = [columns |-> GenColumns,
                      rows |-> LET final_df == concat(all_groups) IN
                               IF Len(final_df) > n_rows
                               THEN SubSeq(final_df, 1, n_rows) ELSE final_df]
            /\ pc' = "generated"
    /\ UNCHANGED <<run, orig_file, input_file, major_groups,
                   group_signatures, unique_groups, duplicate_groups,
                   groups_to_keep, dup_counts, df_cleaned, output_file, saved,
                   gen_vars, scan_vars>>

\* df.to_csv(output_file, index=False) of the generator's main.
SaveGenerated ==
    /\ pc = "generated"
    /\ output_file' = to_csv(df)
    /\ saved' = TRUE
    /\ pc' = "written"
    /\ UNCHANGED <<run, orig_file, input_file, df, major_groups,
                   group_signatures, unique_groups, duplicate_groups,
                   groups_to_keep, dup_counts, df_cleaned,
                   gen_vars, scan_vars>>

\* generate_test_data(args.rows) is called with any number of rows.
InitGenerate ==
    /\ pc = "plan"
    /\ run = 1
    /\ orig_file = NoFile
    /\ input_file = NoFile
    /\ df = NoFrame
    /\ major_groups = <<>>
    /\ group_signatures = <<>>
    /\ unique_groups = <<>>
    /\ duplicate_groups = <<>>
    /\ groups_to_keep = {}
    /\ dup_counts = NoCounts
    /\ df_cleaned = NoFrame
    /\ output_file = NoFile
    /\ saved = FALSE
    /\ n_rows \in 0..MaxGenRows
    /\ group_plans = <<>>
    /\ current_rows = 0
    /\ all_groups = <<>>
    /\ group_idx = 0
    /\ NoScan

NextGenerate ==
    \/ PlanGroup
    \/ SelectGaps
    \/ GenerateGroup
    \/ Concat
    \/ SaveGenerated

SpecGenerate == InitGenerate /\ [][NextGenerate]_vars

NextGenerateAgain ==
    \/ PlanGroup
    \/ SelectGaps
    \/ GenerateGroupAgain
    \/ Concat
    \/ SaveGenerated

SpecGenerateAgain == InitGenerate /\ [][NextGenerateAgain]_vars

----------------------------------------------------------------------------
\* The groups emitted for the plans before plan p.
RECURSIVE GroupsBefore(_)
GroupsBefore(p) ==
    IF p <= 1 THEN 0
    ELSE GroupsBefore(p - 1) + 1 + group_plans[p - 1].duplicates

\* The columns of the generated table but good_time and dumb_time.
GenDataColumns ==
    {GenColumns[k] : k \in 1..Len(GenColumns)} \ {"good_time", "dumb_time"}

\* C27: for every plan that was generated, the base group is followed by
\* as many groups as the plan has duplicates, each with the rows of the base
\* group and, row by row, its values in every column but good_time and
\* dumb_time.
C27_DuplicatesCopyBase ==
    pc \in {"generate", "generated", "written"} =>
        /\ Len(all_groups) = GroupsBefore(group_idx + 1)
        /\ \A p \in 1..group_idx :
              LET base == GroupsBefore(p) + 1 IN
              \A k \in 1..group_plans[p].duplicates :
                  /\ Len(all_groups[base + k]) = Len(all_groups[base])
                  /\ \A r \in 1..Len(all_groups[base]) :
                        \A col \in GenDataColumns :
                            all_groups[base + k][r][col] = all_groups[base][r][col]

----------------------------------------------------------------------------
\* The rows the plans add up to.
RECURSIVE PlannedRows(_)
PlannedRows(plans) ==
    IF plans = <<>> THEN 0 ELSE plans[1].rows + PlannedRows(Tail(plans))

\* The rows of the generated table whose dumb_time is empty (1-based).
EmptyDumbTimeRows == {r \in 1..Len(df.rows) : df.rows[r]["dumb_time"].text = <<>>}

\* C28: in every emitted group, base group or duplicate, the dumb_time is
\* empty on the first row and on no other row; the planned rows sum to
\* n_rows; the generated table has n_rows rows, an empty dumb_time on row 0
\* and as many rows with an empty dumb_time as groups were emitted (the
\* plans plus their duplicates); and the file that is written reads back
\* as those groups.
C28_BoundaryColumnInvariant ==
    /\ pc \in {"generate", "generated", "written"} =>
          /\ PlannedRows(group_plans) = n_rows
          /\ \A g \in 1..Len(all_groups) :
                /\ Len(all_groups[g]) >= 1
                /\ \A r \in 1..Len(all_groups[g]) :
                      (all_groups[g][r]["dumb_time"].text = <<>>) <=> (r = 1)
    /\ pc \in {"generated", "written"} =>
          /\ Len(df.rows) = n_rows
          /\ 1 \in EmptyDumbTimeRows
          /\ Len(all_groups) = GroupsBefore(Len(group_plans) + 1)
          /\ Cardinality(EmptyDumbTimeRows) = Len(all_groups)
    /\ pc = "written" =>
          LET groups == identify_major_groups(read_csv(output_file)) IN
              /\ Len(groups) = Len(all_groups)
              /\ groups[1].start = 0
              /\ \A g \in 1..Len(groups) : groups[g].size = Len(all_groups[g])
              /\ SumSizes(groups) = n_rows

\* A table of a unique group and a group with two duplicates was written.
C28_Witness ==
    /\ pc = "written"
    /\ Len(group_plans) >= 2
    /\ \E p \in 1..Len(group_plans) : group_plans[p].duplicates = 2

----------------------------------------------------------------------------
\* analyze_duplicate_blocks: the scan for blocks of consecutive identical rows

MaxScanRows == 4

\* df.iloc[j][col] == df.iloc[i][col]: a NaN equals nothing, itself included.
cell_eq(a, b) == ~a.isna /\ ~b.isna /\ a.text = b.text

\* A comparison satisfied by one equal column.
rows_match_any(frame, j, i, cols) ==
    \E c \in 1..Len(cols) :
        cell_eq(frame.rows[j + 1][cols[c]], frame.rows[i + 1][cols[c]])

\* all(df.iloc[j][col] == df.iloc[i][col] for col in non_time_cols)
rows_match(frame, j, i, cols) ==
    \A c \in 1..Len(cols) :
        cell_eq(frame.rows[j + 1][cols[c]], frame.rows[i + 1][cols[c]])

\* The inner while: j after it, when it is entered with j.
RECURSIVE block_end(_, _, _, _)
block_end(frame, i, j, cols) ==
    IF j < Len(frame.rows) /\ rows_match(frame, j, i, cols)
    THEN block_end(frame, i, j + 1, cols)
    ELSE j

\* tuple(df.iloc[i][non_time_cols].values)
block_signature(frame, i, cols) ==
    [c \in 1..Len(cols) |-> frame.rows[i + 1][cols[c]]]

\* blocks = []; i = 0
StartScan ==
    /\ pc = "loaded"
    /\ blocks' = <<>>
    /\ scan_i' = 0
    /\ pc' = "scan"
    /\ UNCHANGED <<run, orig_file, input_file, df, major_groups,
                   group_signatures, unique_groups, duplicate_groups,
                   groups_to_keep, dup_counts, df_cleaned, output_file, saved>>
    /\ UNCHANGED gen_vars

\* One iteration of "while i < len(df)".
ScanBlock ==
    /\ pc = "scan"
    /\ scan_i < Len(df.rows)
    /\ LET cols == non_time_cols(df)
           j == block_end(df, scan_i, scan_i + 1, cols)
       IN /\ blocks' = IF j - scan_i > 1
                       THEN Append(blocks,
                                   [start |-> scan_i, end |-> j - 1,
                                    size |-> j - scan_i,
                                    signature |-> block_signature(df, scan_i, cols)])
                       ELSE blocks
          /\ scan_i' = j
    /\ UNCHANGED <<pc, run, orig_file, input_file, df, major_groups,
                   group_signatures, unique_groups, duplicate_groups,
                   groups_to_keep, dup_counts, df_cleaned, output_file, saved>>
    /\ UNCHANGED gen_vars

\* The loop is left when i has reached len(df).
ScanDone ==
    /\ pc = "scan"
    /\ ~(scan_i < Len(df.rows))
    /\ pc' = "scanned"
    /\ UNCHANGED <<run, orig_file, input_file, df, major_groups,
                   group_signatures, unique_groups, duplicate_groups,
                   groups_to_keep, dup_counts, df_cleaned, output_file, saved>>
    /\ UNCHANGED <<gen_vars, scan_vars>>

NextBlocks ==
    \/ Load
    \/ StartScan
    \/ ScanBlock
    \/ ScanDone

\* The files the scan is run on: every row has its own good_time; category_3
\* and tags are the compared columns, and a tags field may be empty.
ScanColumns == <<"good_time", "category_3", "tags">>

ScanFiles(n) ==
    {[header |-> ScanColumns,
      records |-> [i \in 1..n |->
                     [good_time |-> TimeAt(i),
                      category_3 |-> cats[i],
                      tags |-> IF tagged[i] THEN <<"x">> ELSE <<>>]]]
       : cats \in [1..n -> {<<"a">>, <<"b">>}], tagged \in [1..n -> BOOLEAN]}

InitBlocks ==
    \E n \in 0..MaxScanRows : \E file \in ScanFiles(n) : StartOn(file)

\* The script runs to its end: a step that can be taken is taken.
SpecBlocks == InitBlocks /\ [][NextBlocks]_vars /\ WF_vars(NextBlocks)

----------------------------------------------------------------------------
\* The columns of df without 'time' in their name.
ScanNonTimeColumns ==
    {df.columns[c] : c \in {k \in 1..Len(df.columns) :
        ~contains(<<"t","i","m","e">>, lower(ColumnChars(df.columns[k])))}}

\* Rows r and s of df (0-based) hold the same values, none of them missing,
\* in every non-time column.
SameOnNonTime(r, s) ==
    \A col \in ScanNonTimeColumns :
        /\ ~df.rows[r + 1][col].isna
        /\ ~df.rows[s + 1][col].isna
        /\ df.rows[r + 1][col].text = df.rows[s + 1][col].text

\* The blocks listed so far are inside the table, of size >= 2, disjoint and
\* in strictly increasing order, made of rows equal to their first row, and
\* maximal.
BlocksWellFormed ==
    \A b \in 1..Len(blocks) :
        /\ blocks[b].start >= 0
        /\ blocks[b].end <= Len(df.rows) - 1
        /\ blocks[b].size >= 2
        /\ blocks[b].size = blocks[b].end - blocks[b].start + 1
        /\ \A r \in blocks[b].start..blocks[b].end :
              SameOnNonTime(r, blocks[b].start)
        /\ blocks[b].end + 1 <= Len(df.rows) - 1 =>
              \E col \in ScanNonTimeColumns :
                  df.rows[blocks[b].end + 2][col]
                      # df.rows[blocks[b].start + 1][col]
        /\ b < Len(blocks) => blocks[b].end < blocks[b + 1].start

\* C30: the scan of analyze_duplicate_blocks ends on every table, its index
\* grows in every iteration, and the blocks it lists are pairwise disjoint,
\* in strictly increasing start order, of size >= 2, made of rows equal to
\* the block's first row on all non-time columns, and maximal (the row after
\* a block differs from the block's first row on some non-time column).
C30_ScanTerminatesWithMaximalBlocks ==
    /\ []BlocksWellFormed
    /\ [][(pc = "scan" /\ pc' = "scan") => scan_i' > scan_i]_vars
    /\ <>(pc = "scanned")

\* A scan that has ended with two blocks, the second next to the first.
C30_Witness ==
    /\ pc = "scanned"
    /\ Len(blocks) = 2
    /\ blocks[1].end + 1 = blocks[2].start

====
